---- MODULE Spec2Model ----
(***************************************************************************)
(* Model of scripts/vibevoice-tts.py: voice discovery, voice name          *)
(* resolution, and the generate/main pipeline (device selection, model     *)
(* loading with the attention-kernel fallback, the empty-output check and  *)
(* the save/transcode step with its temporary file).                       *)
(*                                                                         *)
(* A Python str is modelled as a sequence of one-character strings, so     *)
(* that lower(), strip(), split(), the `in` substring test, startswith()   *)
(* and the ordering used by sorted() are computed character by character.  *)
(***************************************************************************)
EXTENDS Integers, Sequences, FiniteSets, TLC

\* ---------------------------------------------------------------- bounds
\* Largest number of .pt files in the voices directory (resolution runs).
MaxFiles == 3
\* Largest number of .pt files in the voices directory (pipeline runs).
MaxPipeFiles == 2

\* ------------------------------------------------------------ characters
\* The characters used, in code point order (the order sorted() compares by).
CodePoints ==
  << "\t", " ", "-", "0", "1",
     "A", "B", "C", "E", "I", "K", "L", "M", "N", "O", "P", "R", "S", "W", "Y",
     "_",
     "a", "b", "c", "d", "e", "f", "h", "i", "k", "l", "m", "n", "o", "p",
     "r", "s", "t", "w", "y", "z" >>

\* str.lower() on one character: the upper-case letters and what they map to.
UpperCase == << "A", "B", "C", "E", "I", "K", "L", "M", "N", "O", "P", "R", "S", "W", "Y" >>

LowerCase == << "a", "b", "c", "e", "i", "k", "l", "m", "n", "o", "p", "r", "s", "w", "y" >>

\* The characters str.strip() removes.
Whitespace == { " ", "\t" }

Ord(c) == CHOOSE i \in 1..Len(CodePoints) : CodePoints[i] = c

LowerChar(c) ==
  IF \E i \in 1..Len(UpperCase) : UpperCase[i] = c
  THEN LowerCase[CHOOSE i \in 1..Len(UpperCase) : UpperCase[i] = c]
  ELSE c

\* ----------------------------------------------------- string operations
\* s.lower()
str_lower(s) == [i \in 1..Len(s) |-> LowerChar(s[i])]

\* s.strip(): drop leading and trailing whitespace, keep what is inside.
str_strip(s) ==
  LET inner == { i \in 1..Len(s) : s[i] \notin Whitespace }
  IN IF inner = {} THEN << >>
     ELSE LET first == CHOOSE i \in inner : \A j \in inner : i <= j
              last  == CHOOSE i \in inner : \A j \in inner : j <= i
          IN SubSeq(s, first, last)

\* sep in s   (sep a single character)
HasChar(s, sep) == \E i \in 1..Len(s) : s[i] = sep

\* s.split(sep)[0]: what precedes the first sep, or s when there is none.
SplitFirst(s, sep) ==
  IF HasChar(s, sep)
  THEN LET i == CHOOSE i \in 1..Len(s) : s[i] = sep /\ \A j \in 1..(i-1) : s[j] # sep
       IN SubSeq(s, 1, i - 1)
  ELSE s

\* s.split(sep)[-1]: what follows the last sep, or s when there is none.
SplitLast(s, sep) ==
  IF HasChar(s, sep)
  THEN LET i == CHOOSE i \in 1..Len(s) : s[i] = sep /\ \A j \in (i+1)..Len(s) : s[j] # sep
       IN SubSeq(s, i + 1, Len(s))
  ELSE s

\* a in b   (substring test; the empty string is in every string)
IsSubstring(a, b) ==
  \E i \in 0..(Len(b) - Len(a)) : SubSeq(b, i + 1, i + Len(a)) = a

\* s.startswith(p)
StartsWith(s, p) == Len(p) <= Len(s) /\ SubSeq(s, 1, Len(p)) = p

\* a < b as Python compares str: by code point, a proper prefix first.
StrLess(a, b) ==
  \/ Len(a) < Len(b) /\ SubSeq(b, 1, Len(a)) = a
  \/ \E i \in 1..Len(a) :
        /\ i <= Len(b)
        /\ SubSeq(a, 1, i - 1) = SubSeq(b, 1, i - 1)
        /\ Ord(a[i]) < Ord(b[i])

\* ------------------------------------------------------- concrete strings
k_en_emma_woman == << "e","n","-","e","m","m","a","_","w","o","m","a","n" >>

k_en_mike_man == << "e","n","-","m","i","k","e","_","m","a","n" >>

k_en_mikeb_man == << "e","n","-","m","i","k","e","b","_","m","a","n" >>

k_emma == << "e","m","m","a" >>

k_sp_emma == << " ","e","m","m","a" >>

n_Emma == << "E","m","m","a" >>

n_EMMA == << "E","M","M","A" >>

n_en_emma == << "e","n","-","e","m","m","a" >>

n_mike == << "m","i","k","e" >>

EnPrefix == << "e","n","-" >>

\* The directory the voice files live in (VOICES_DIR), as one path component.
VOICES_DIR == "streaming_model"

\* A .pt file of the voices directory: its stem as written on disk.
PtFile(stem) == [dir |-> VOICES_DIR, stem |-> stem]

\* The stems of the .pt files a voices directory may hold (resolution runs):
\* the shipped shapes (lang-Name_gender), two files differing only in case,
\* names with two '_' or two '-', a bare name, and a name starting with a blank.
StemPool ==
  { << "e","n","-","E","m","m","a","_","w","o","m","a","n" >>,
    k_en_emma_woman,
    << "e","n","-","C","a","r","t","e","r","_","m","a","n" >>,
    << "d","e","-","E","m","m","a","_","w","o","m","a","n" >>,
    << "e","n","-","M","i","k","e","_","m","a","n" >>,
    << "e","n","-","M","i","k","e","b","_","m","a","n" >>,
    << "d","e","-","M","a","r","y","_","A","n","n","_","m","a","n" >>,
    << "e","n","-","M","a","r","y","_","w","o","m","a","n" >>,
    << "z","h","-","c","n","-","L","i","_","m","a","n" >>,
    << "f","r","-","S","p","k","1","_","w","o","m","a","n" >>,
    << "d","e","-","S","p","k","0","_","m","a","n" >>,
    k_emma,
    k_sp_emma }

\* The --voice strings tried (resolution runs).
NamePool ==
  { n_Emma, n_EMMA, n_en_emma, n_mike,
    << "m","i","k" >>,
    << "M","a","r","y" >>,
    << "l","i" >>,
    << "s","p","k" >>,
    << " ","E","m","m","a"," " >>,
    k_sp_emma,
    << "E","N","-","M","I","K","E","_","M","A","N" >>,
    << "m","y","-","e","m","m","a","\t" >>,
    << "z","z" >>,
    << " "," " >>,
    << >> }

\* ------------------------------------------------------- voice discovery
RECURSIVE SortKeys(_)
\* sorted(): the keys in ascending order.
SortKeys(S) ==
  IF S = {} THEN << >>
  ELSE LET m == CHOOSE x \in S : \A y \in S \ {x} : StrLess(x, y)
       IN << m >> \o SortKeys(S \ {m})

RECURSIVE ScanFiles(_, _)
\* The loop of discover_voices over the files in the order glob yields them:
\* voices[name] = path, a later file replacing an earlier one of the same name.
ScanFiles(globbed, acc) ==
  IF globbed = << >> THEN acc
  ELSE LET f    == Head(globbed)
           name == str_lower(f.stem)
       IN ScanFiles(Tail(globbed),
                    [k \in (DOMAIN acc) \cup {name} |-> IF k = name THEN f ELSE acc[k]])

\* discover_voices(): the registry as an ordered mapping, a sequence of
\* [key, path] entries in ascending key order; empty when the directory is missing.
discover_voices(dirExists, globbed) ==
  IF ~dirExists THEN << >>
  ELSE LET d    == ScanFiles(globbed, [k \in {} |-> k])
           keys == SortKeys(DOMAIN d)
       IN [i \in 1..Len(keys) |-> [key |-> keys[i], path |-> d[keys[i]]]]

\* The orders in which glob may yield a set of files.
GlobOrders(files) ==
  { s \in [1..Cardinality(files) -> files] : \A i, j \in DOMAIN s : i # j => s[i] # s[j] }

\* ------------------------------------------------------- voice resolution
\* key in voices
HasKey(voices, key) == \E i \in 1..Len(voices) : voices[i].key = key

\* voices[key]
Lookup(voices, key) == voices[CHOOSE i \in 1..Len(voices) : voices[i].key = key].path

\* base = key.split("_")[0]
KeyBase(key) == SplitFirst(key, "_")

\* short = base.split("-")[0]: the language prefix instead of the name.
KeyShort_firstSegment(base) == SplitFirst(base, "-")

\* short = base.split("-")[-1] if "-" in base else base
KeyShort(base) == IF HasChar(base, "-") THEN SplitLast(base, "-") ELSE base

\* lower == short or lower == base
ConvenienceHit(lower, key) == lower = KeyShort(KeyBase(key)) \/ lower = KeyBase(key)

\* lower in k or k in lower
PartialHit(lower, key) == IsSubstring(lower, key) \/ IsSubstring(key, lower)

\* matches = [(k, p) for k, p in voices.items() if lower in k or k in lower]
PartialMatches(lower, voices) ==
  LET Test(e) == PartialHit(lower, e.key) IN SelectSeq(voices, Test)

\* k.startswith("en-")
IsEnglish(key) == StartsWith(key, EnPrefix)

\* The first of the positions at which a loop's test holds (where the loop
\* returns), 0 when it holds nowhere (the loop runs to its end).
FirstIndex(hits) ==
  IF hits = {} THEN 0 ELSE CHOOSE i \in hits : \A j \in hits : i <= j

\* A value resolve_voice returns, with the warnings it printed to stderr and
\* the return statement it left by.
Returned(path, warnings, via) ==
  [path |-> path, warnings |-> warnings, via |-> via, exc |-> "none"]

\* A warning line on stderr.
Warning(kind, name, detail) == [kind |-> kind, name |-> name, detail |-> detail]

\* list(voices.values())[0]: IndexError on an empty registry.
AbsoluteFallback(name, voices) ==
  IF voices = << >>
  THEN [path |-> "none", warnings |-> << >>, via |-> "none", exc |-> "IndexError"]
  ELSE Returned(voices[1].path, << Warning("no_voice_using", name, << voices[1].path >>) >>, "first")

\* The English default left out: straight to the first entry.
EnglishFallback_skipped(name, voices) == AbsoluteFallback(name, voices)

\* for k, p in voices.items(): if k.startswith("en-"): warn; return p
EnglishFallback(name, voices) ==
  LET i == FirstIndex({ j \in 1..Len(voices) : IsEnglish(voices[j].key) })
  IN IF i # 0
     THEN Returned(voices[i].path, << Warning("no_voice_default", name, << voices[i].key >>) >>, "default_en")
     ELSE AbsoluteFallback(name, voices)

\* The partial-match step with no fallback after it: an unmatched name raises.
PartialStep_noFallback(name, lower, voices) ==
  LET matches == PartialMatches(lower, voices)
  IN IF Len(matches) >= 1 THEN Returned(matches[1].path, << >>, "partial")
     ELSE [path |-> "none", warnings |-> << >>, via |-> "none", exc |-> "ValueError"]

\* The partial-match step and what follows it.
PartialStep(name, lower, voices) ==
  LET matches == PartialMatches(lower, voices)
  IN IF Len(matches) = 1 THEN Returned(matches[1].path, << >>, "partial")
     ELSE IF Len(matches) > 1
     THEN Returned(matches[1].path,
                   << Warning("multiple_matches", name, [i \in 1..Len(matches) |-> matches[i].key]) >>,
                   "partial_multi")
     ELSE EnglishFallback(name, voices)

\* The convenience loop and what follows it.
ConvenienceStep(name, lower, voices) ==
  LET i == FirstIndex({ j \in 1..Len(voices) : ConvenienceHit(lower, voices[j].key) })
  IN IF i # 0 THEN Returned(voices[i].path, << >>, "convenience")
     ELSE PartialStep(name, lower, voices)

\* lower = name.strip() without lower(): a case-sensitive comparison.
NormalizeName_noLower(name) == str_strip(name)

\* lower = name.lower().strip()
NormalizeName(name) == str_strip(str_lower(name))

\* resolve_voice(name, voices)
resolve_voice(name, voices) ==
  LET lower == NormalizeName(name)
  IN IF HasKey(voices, lower) THEN Returned(Lookup(voices, lower), << >>, "exact")
     ELSE ConvenienceStep(name, lower, voices)

\* ------------------------------------------------------------------ state
VARIABLES
  pc,             \* position in the run
  dirExists,      \* os.path.exists(VOICES_DIR)
  files,          \* the .pt files under VOICES_DIR
  voice_name,     \* the name to resolve (--voice)
  voices,         \* the registry discover_voices returned
  resolved,       \* what resolve_voice returned
  list_voices,    \* --list-voices
  output_format,  \* --format
  cuda,           \* torch.cuda.is_available()
  mps,            \* torch.backends.mps.is_available()
  selected,       \* device, load_dtype and attn_impl chosen
  processor,      \* the processor: "unloaded" or "loaded"
  attempts,       \* the model constructions attempted, in order
  outputs,        \* what model.generate returned
  outdir_made,    \* os.makedirs of the output directory was called
  dest,           \* the file at output_path
  tmp_wav,        \* the temporary waveform file: "none", "exists", "absent"
  saved,          \* the outcome of save_audio: "none", "ok", "raised"
  returncode,     \* the encoder's exit code, -1 before it ran
  pending,        \* the exception in flight inside try/finally
  exc,            \* the exception that left generate
  status,         \* the process's exit status, -1 while running
  stdout,
  stderr

inputs == << dirExists, files, voice_name, list_voices, output_format, cuda, mps >>

loading == << selected, processor, attempts >>

saving == << outdir_made, dest, tmp_wav, saved, returncode, pending >>

ending == << exc, status, stdout >>

vars == << pc, inputs, voices, resolved, loading, outputs, saving, ending, stderr >>

NotResolved == [path |-> "none", warnings |-> << >>, via |-> "none", exc |-> "none"]

NotSelected == [device |-> "none", load_dtype |-> "none", attn_impl |-> "none"]

NotGenerated == [generated |-> FALSE, speech_outputs |-> << >>]

\* Nothing of the run has happened yet.
Fresh ==
  /\ voices = << >>
  /\ resolved = NotResolved
  /\ selected = NotSelected
  /\ processor = "unloaded"
  /\ attempts = << >>
  /\ outputs = NotGenerated
  /\ outdir_made = FALSE
  /\ tmp_wav = "none"
  /\ saved = "none"
  /\ returncode = -1
  /\ pending = "none"
  /\ exc = "none"
  /\ status = -1
  /\ stdout = << >>
  /\ stderr = << >>

\* ------------------------------------------- resolution runs (SpecResolve)
InitResolve ==
  /\ pc = "call_discover"
  /\ dirExists \in BOOLEAN
  /\ files \in { S \in SUBSET { PtFile(s) : s \in StemPool } : Cardinality(S) <= MaxFiles }
  /\ (~dirExists => files = {})
  /\ voice_name \in NamePool
  /\ list_voices = FALSE
  /\ output_format = "wav"
  /\ cuda = FALSE
  /\ mps = FALSE
  /\ dest = "absent"
  /\ Fresh

\* voices = discover_voices()
CallDiscover ==
  /\ pc = "call_discover"
  /\ \E g \in GlobOrders(files) : voices' = discover_voices(dirExists, g)
  /\ pc' = "call_resolve"
  /\ UNCHANGED << inputs, resolved, loading, outputs, saving, ending, stderr >>

\* resolve_voice(voice_name, voices), its warnings going to stderr
CallResolve ==
  /\ pc = "call_resolve"
  /\ resolved' = resolve_voice(voice_name, voices)
  /\ stderr' = stderr \o resolved'.warnings
  /\ pc' = "returned"
  /\ UNCHANGED << inputs, voices, loading, outputs, saving, ending >>

NextResolve == CallDiscover \/ CallResolve

SpecResolve == InitResolve /\ [][NextResolve]_vars

\* ------------------------------------------------ the pipeline (Spec)
\* The stems of the .pt files a voices directory may hold (pipeline runs).
PipeStems ==
  { << "e","n","-","E","m","m","a","_","w","o","m","a","n" >>,
    << "d","e","-","S","p","k","0","_","m","a","n" >>,
    << "e","n","-","C","a","r","t","e","r","_","m","a","n" >> }

\* The --voice strings tried (pipeline runs): the default and an unknown name.
PipeNames == { n_Emma, << "z","z" >> }

Init ==
  /\ pc = "main"
  /\ dirExists \in BOOLEAN
  /\ files \in { S \in SUBSET { PtFile(s) : s \in PipeStems } : Cardinality(S) <= MaxPipeFiles }
  /\ (~dirExists => files = {})
  /\ voice_name \in PipeNames
  /\ list_voices \in BOOLEAN
  /\ output_format \in { "wav", "ogg" }
  /\ cuda \in BOOLEAN
  /\ mps \in BOOLEAN
  /\ dest \in { "absent", "existing" }
  /\ Fresh

\* An exception leaves generate and main: traceback, non-zero exit status.
Raise(e) == pc' = "exit" /\ exc' = e /\ status' = 1 /\ stdout' = stdout

\* main with --list-voices: print the registry's names and return.
ListVoices ==
  /\ pc = "main"
  /\ list_voices
  /\ \E g \in GlobOrders(files) : voices' = discover_voices(dirExists, g)
  /\ stdout' = [i \in 1..Len(voices') |-> voices'[i].key]
  /\ pc' = "exit"
  /\ status' = 0
  /\ UNCHANGED << inputs, resolved, loading, outputs, saving, exc, stderr >>

\* Device selection of generate: cuda, else mps, else cpu.
SelectDevice ==
  /\ pc = "main"
  /\ ~list_voices
  /\ selected' =
       IF cuda THEN [device |-> "cuda", load_dtype |-> "bfloat16", attn_impl |-> "flash_attention_2"]
       ELSE IF mps THEN [device |-> "mps", load_dtype |-> "float32", attn_impl |-> "sdpa"]
       ELSE [device |-> "cpu", load_dtype |-> "float32", attn_impl |-> "sdpa"]
  /\ pc' = "discover"
  /\ UNCHANGED << inputs, voices, resolved, processor, attempts, outputs, saving, ending, stderr >>

\* voices = discover_voices(); FileNotFoundError when there is none.
DiscoverOrFail ==
  /\ pc = "discover"
  /\ \E g \in GlobOrders(files) : voices' = discover_voices(dirExists, g)
  /\ IF voices' = << >> THEN Raise("FileNotFoundError")
     ELSE pc' = "resolve" /\ UNCHANGED ending
  /\ UNCHANGED << inputs, resolved, loading, outputs, saving, stderr >>

\* voice_path = resolve_voice(voice_name, voices), then the Device/Voice line.
ResolveVoice ==
  /\ pc = "resolve"
  /\ resolved' = resolve_voice(voice_name, voices)
  /\ stderr' = stderr \o resolved'.warnings
                 \o << Warning("device_voice", voice_name, << resolved'.path >>) >>
  /\ pc' = "load_processor"
  /\ UNCHANGED << inputs, voices, loading, outputs, saving, ending >>

\* processor = VibeVoiceStreamingProcessor.from_pretrained(model_path)
LoadProcessor ==
  /\ pc = "load_processor"
  /\ \E ok \in BOOLEAN :
       IF ok THEN processor' = "loaded" /\ pc' = "load_model" /\ UNCHANGED ending
       ELSE processor' = processor /\ Raise("ProcessorLoadError")
  /\ UNCHANGED << inputs, voices, resolved, selected, attempts, outputs, saving, stderr >>

\* One from_pretrained call of the model, as the attempts record it.
Attempt(attn, device, dtype, ok) ==
  [attn_implementation |-> attn,
   device_map |-> IF device = "mps" THEN "None" ELSE device,
   moved_to |-> IF device = "mps" /\ ok THEN "mps" ELSE "none",
   torch_dtype |-> dtype,
   ok |-> ok]

\* The fallback construction with full precision instead of the chosen dtype.
RetryAttempt_float32(ok) == Attempt("sdpa", selected.device, "float32", ok)

\* The construction in the except clause: sdpa, same device, same dtype.
RetryAttempt(ok) == Attempt("sdpa", selected.device, selected.load_dtype, ok)

\* The try block: the first construction, and what the except clause decides.
LoadModel ==
  /\ pc = "load_model"
  /\ \E ok \in BOOLEAN :
       /\ attempts' = << Attempt(selected.attn_impl, selected.device, selected.load_dtype, ok) >>
       /\ IF ok THEN pc' = "run" /\ UNCHANGED << ending, stderr >>
          ELSE IF selected.attn_impl = "flash_attention_2"
          THEN /\ pc' = "fallback"
               /\ stderr' = Append(stderr, Warning("flash_attention_2_failed", voice_name, << >>))
               /\ UNCHANGED ending
          ELSE Raise("ModelLoadError") /\ UNCHANGED stderr
  /\ UNCHANGED << inputs, voices, resolved, selected, processor, outputs, saving >>

\* The except clause's second construction; its failure propagates.
RetryModel ==
  /\ pc = "fallback"
  /\ \E ok \in BOOLEAN :
       /\ attempts' = Append(attempts, RetryAttempt(ok))
       /\ IF ok THEN pc' = "run" /\ UNCHANGED ending
          ELSE Raise("ModelLoadError")
  /\ UNCHANGED << inputs, voices, resolved, selected, processor, outputs, saving, stderr >>

\* What outputs.speech_outputs may be.
SpeechOutputs == { << >>, << "None" >>, << "audio" >> }

\* model.eval() through model.generate(...): the voice prompt, the inputs, the run.
RunInference ==
  /\ pc = "run"
  /\ \/ /\ \E so \in SpeechOutputs : outputs' = [generated |-> TRUE, speech_outputs |-> so]
        /\ pc' = "check"
        /\ UNCHANGED ending
     \/ outputs' = outputs /\ Raise("InferenceError")
  /\ UNCHANGED << inputs, voices, resolved, loading, saving, stderr >>

\* The empty-output check left out: on to the save whatever came back.
CheckOutputs_missing ==
  /\ pc = "check"
  /\ pc' = "makedirs"
  /\ UNCHANGED << inputs, voices, resolved, loading, outputs, saving, ending, stderr >>

\* if not outputs.speech_outputs or outputs.speech_outputs[0] is None: raise
CheckOutputs ==
  /\ pc = "check"
  /\ IF outputs.speech_outputs = << >> \/ outputs.speech_outputs[1] = "None"
     THEN Raise("RuntimeError: No audio output generated")
     ELSE pc' = "makedirs" /\ UNCHANGED ending
  /\ UNCHANGED << inputs, voices, resolved, loading, outputs, saving, stderr >>

\* os.makedirs(dirname(abspath(output_path)), exist_ok=True), then the branch on fmt
MakeDirs ==
  /\ pc = "makedirs"
  /\ \/ /\ outdir_made' = TRUE
        /\ pc' = IF output_format = "ogg" THEN "mktemp" ELSE "save_wav"
        /\ UNCHANGED ending
     \/ outdir_made' = outdir_made /\ Raise("OSError")
  /\ UNCHANGED << inputs, voices, resolved, loading, outputs,
                  dest, tmp_wav, saved, returncode, pending, stderr >>

\* with tempfile.NamedTemporaryFile(suffix=".wav", delete=False) as tmp
MakeTemp ==
  /\ pc = "mktemp"
  /\ tmp_wav' = "exists"
  /\ pc' = "save_tmp"
  /\ UNCHANGED << inputs, voices, resolved, loading, outputs,
                  outdir_made, dest, saved, returncode, pending, ending, stderr >>

\* processor.save_audio(..., output_path=tmp_wav) inside the try
SaveTemp ==
  /\ pc = "save_tmp"
  /\ \/ saved' = "ok" /\ tmp_wav' = tmp_wav /\ pending' = pending /\ pc' = "transcode"
     \/ /\ saved' = "raised"
        /\ tmp_wav' \in { "exists", "absent" }
        /\ pending' = "SaveError"
        /\ pc' = "finally"
  /\ UNCHANGED << inputs, voices, resolved, loading, outputs,
                  outdir_made, dest, returncode, ending, stderr >>

\* wav_to_ogg_opus(tmp_wav, output_path): RuntimeError on a non-zero exit
Transcode ==
  /\ pc = "transcode"
  /\ \/ returncode' = 0 /\ dest' = "ogg" /\ pending' = pending
     \/ /\ returncode' = 1
        /\ dest' \in { dest, "partial" }
        /\ pending' = "RuntimeError: ffmpeg conversion failed"
  /\ pc' = "finally"
  /\ UNCHANGED << inputs, voices, resolved, loading, outputs,
                  outdir_made, tmp_wav, saved, ending, stderr >>

\* The temporary file removed only after a successful transcode (no finally).
Cleanup_onSuccessOnly ==
  /\ pc = "finally"
  /\ tmp_wav' = IF tmp_wav = "exists" /\ pending = "none" THEN "deleted" ELSE tmp_wav
  /\ IF pending # "none" THEN Raise(pending) ELSE pc' = "result" /\ UNCHANGED ending
  /\ pending' = "none"
  /\ UNCHANGED << inputs, voices, resolved, loading, outputs,
                  outdir_made, dest, saved, returncode, stderr >>

\* finally: if os.path.exists(tmp_wav): os.unlink(tmp_wav); then the
\* exception in flight, if any, goes on.
Cleanup ==
  /\ pc = "finally"
  /\ tmp_wav' = IF tmp_wav = "exists" THEN "deleted" ELSE tmp_wav
  /\ IF pending # "none" THEN Raise(pending) ELSE pc' = "result" /\ UNCHANGED ending
  /\ pending' = "none"
  /\ UNCHANGED << inputs, voices, resolved, loading, outputs,
                  outdir_made, dest, saved, returncode, stderr >>

\* else: processor.save_audio(..., output_path=output_path)
SaveWav ==
  /\ pc = "save_wav"
  /\ \/ saved' = "ok" /\ dest' = "wav" /\ pc' = "result" /\ UNCHANGED ending
     \/ saved' = "raised" /\ dest' \in { dest, "partial" } /\ Raise("SaveError")
  /\ UNCHANGED << inputs, voices, resolved, loading, outputs,
                  outdir_made, tmp_wav, returncode, pending, stderr >>

\* return result; print(json.dumps(result))
PrintResult ==
  /\ pc = "result"
  /\ stdout' = << [output_path |-> dest, format |-> output_format,
                   voice |-> resolved.path.stem, device |-> selected.device] >>
  /\ pc' = "exit"
  /\ status' = 0
  /\ UNCHANGED << inputs, voices, resolved, loading, outputs, saving, exc, stderr >>

Next ==
  \/ ListVoices
  \/ SelectDevice
  \/ DiscoverOrFail
  \/ ResolveVoice
  \/ LoadProcessor
  \/ LoadModel
  \/ RetryModel
  \/ RunInference
  \/ CheckOutputs
  \/ MakeDirs
  \/ MakeTemp
  \/ SaveTemp
  \/ Transcode
  \/ Cleanup
  \/ SaveWav
  \/ PrintResult

Spec == Init /\ [][Next]_vars

\* ------------------------------------------- properties of resolve_voice
\* The name as resolve_voice compares it.
Lowered == str_strip(str_lower(voice_name))

KeySeq == [i \in 1..Len(voices) |-> voices[i].key]

PathSet == { voices[i].path : i \in 1..Len(voices) }

\* C1: for a non-empty registry and any name, resolve_voice raises nothing
\* and returns a path that is one of the registry's values.
C1_ReturnsRegistryPath ==
  (pc = "returned" /\ voices # << >>) =>
     (resolved.exc = "none" /\ resolved.path \in PathSet)

\* C1 witness: an unmatched name resolved against a registry of several
\* voices, none of them English, by the last fallback.
C1_Witness ==
  /\ pc = "returned"
  /\ Len(voices) >= 2
  /\ resolved.via = "first"
  /\ resolved.path \in PathSet

\* The base form as the claim words it: the key without the segment after its last '_'.
ClaimBase(key) ==
  IF HasChar(key, "_")
  THEN LET i == CHOOSE i \in 1..Len(key) : key[i] = "_" /\ \A j \in (i+1)..Len(key) : key[j] # "_"
       IN SubSeq(key, 1, i - 1)
  ELSE key

\* The short form as the claim words it: the base without the segment before '-'.
ClaimShort(base) ==
  IF HasChar(base, "-")
  THEN LET i == CHOOSE i \in 1..Len(base) : base[i] = "-" /\ \A j \in 1..(i-1) : base[j] # "-"
       IN SubSeq(base, i + 1, Len(base))
  ELSE base

\* C2: with no exact match, step 2 returns the path of the first key whose
\* base (key minus the segment after its LAST '_') or short form (base minus
\* the language prefix) equals the lowercased, trimmed name, for every key
\* shape; and step 2 returns for no other reason.
C2_ConvenienceForms ==
  (pc = "returned" /\ ~HasKey(voices, Lowered)) =>
     LET hits == { j \in 1..Len(voices) :
                     \/ Lowered = ClaimBase(voices[j].key)
                     \/ Lowered = ClaimShort(ClaimBase(voices[j].key)) }
     IN IF hits # {}
        THEN /\ resolved.via = "convenience"
             /\ resolved.path = voices[CHOOSE i \in hits : \A j \in hits : i <= j].path
        ELSE resolved.via # "convenience"

\* The registry {"en-mike_man": p1, "en-mikeb_man": p2} resolved for "mike".
MikeCase ==
  /\ pc = "returned"
  /\ KeySeq = << k_en_mike_man, k_en_mikeb_man >>
  /\ voice_name = n_mike

\* C3 as stated: "mike" against {en-mike_man, en-mikeb_man} reaches the
\* substring step with both keys, returns p1 and warns of multiple matches.
C3_AmbiguityWarns ==
  MikeCase =>
     /\ resolved.via = "partial_multi"
     /\ resolved.path = voices[1].path
     /\ resolved.warnings =
          << Warning("multiple_matches", n_mike, << k_en_mike_man, k_en_mikeb_man >>) >>

\* C3 amended: "mike" against {en-mike_man, en-mikeb_man} returns p1 by the
\* convenience match on en-mike_man (short form "mike"); the substring step
\* is not reached and nothing is written to stderr.
C3_ConvenienceWins ==
  MikeCase =>
     /\ resolved.via = "convenience"
     /\ resolved.path = voices[1].path
     /\ resolved.warnings = << >>

\* C3 witness: the registry and name of the claim, resolved.
C3_Witness == MikeCase /\ resolved.via = "convenience" /\ resolved.path = voices[1].path

\* The three spellings of the claim.
EmmaNames == { n_Emma, n_EMMA, n_en_emma }

EarlierConvenienceKey ==
  \E i \in 1..Len(voices) :
     /\ StrLess(voices[i].key, k_en_emma_woman)
     /\ LET base == SplitFirst(voices[i].key, "_")
        IN Lowered = base \/ Lowered = SplitLast(base, "-")

NoMatch ==
  \A i \in 1..Len(voices) :
     LET k == voices[i].key
         base == SplitFirst(k, "_")
     IN /\ k # Lowered
        /\ Lowered # base /\ Lowered # SplitLast(base, "-")
        /\ ~IsSubstring(Lowered, k) /\ ~IsSubstring(k, Lowered)

EnglishKeys == { k \in { voices[i].key : i \in 1..Len(voices) } : StartsWith(k, << "e","n","-" >>) }

AllKeys == { voices[i].key : i \in 1..Len(voices) }

\* The least of a set of keys in sorted order.
LeastKey(S) == CHOOSE k \in S : \A o \in S \ {k} : StrLess(k, o)

\* The name matches in step 1, in step 2, or exactly one key in step 3.
QuietMatch ==
  \/ Lowered \in AllKeys
  \/ \E k \in AllKeys : Lowered = SplitFirst(k, "_") \/ Lowered = SplitLast(SplitFirst(k, "_"), "-")
  \/ Cardinality({ k \in AllKeys : IsSubstring(Lowered, k) \/ IsSubstring(k, Lowered) }) = 1

\* C9: a name matching nothing resolves to the path of the first "en-" key
\* in sorted order, or of the first key in sorted order when no key starts
\* with "en-", with exactly one warning on stderr; an exact, convenience or
\* single substring match writes no warning.
C9_Fallback ==
  (pc = "returned" /\ voices # << >>) =>
     /\ NoMatch =>
          /\ Len(resolved.warnings) = 1
          /\ resolved.path =
               Lookup(voices, IF EnglishKeys # {} THEN LeastKey(EnglishKeys) ELSE LeastKey(AllKeys))
     /\ QuietMatch => resolved.warnings = << >>

\* C9 witness: nothing matched, and the English default is not the
\* registry's first entry.
C9_Witness ==
  /\ pc = "returned"
  /\ NoMatch
  /\ Len(voices) >= 2
  /\ ~StartsWith(voices[1].key, << "e","n","-" >>)
  /\ resolved.via = "default_en"
  /\ Len(resolved.warnings) = 1

\* C10: a name equal to a registry key, compared case-insensitively,
\* resolves to the path stored under that key, whatever else the registry holds.
C10_ExactKeyWins ==
  pc = "returned" =>
     \A i \in 1..Len(voices) :
        str_lower(voices[i].key) = str_lower(voice_name) => resolved.path = voices[i].path

\* ---------------------------------------------- properties of the pipeline
\* The file at output_path is as it was before the run.
DestUntouched == dest \in { "absent", "existing" }

\* C4: every caller of discover_voices treats an empty registry as fatal:
\* a run that found no voice ends with FileNotFoundError and a non-zero
\* status, before the processor or the model is loaded and before anything
\* is written; no path, --list-voices included, ends normally.
C4_EmptyRegistryFatal ==
  (pc = "exit" /\ voices = << >>) =>
     /\ status # 0
     /\ exc = "FileNotFoundError"
     /\ processor = "unloaded"
     /\ attempts = << >>
     /\ DestUntouched

\* generate has finished: it returned its result or an exception left it.
GenerateFinished == pc \in { "result", "exit" }

\* C5: with --format ogg, once the temporary waveform file has been created
\* it no longer exists when generate finishes, whether the save and the
\* encoder succeeded, the save raised, or the encoder exited non-zero; and
\* the failure still leaves generate as its exception.
C5_TempFileRemoved ==
  (GenerateFinished /\ tmp_wav # "none") =>
     /\ output_format = "ogg"
     /\ tmp_wav # "exists"
     /\ pending = "none"
     /\ saved = "raised" => (pc = "exit" /\ status = 1 /\ exc = "SaveError")
     /\ returncode = 1 =>
          (pc = "exit" /\ status = 1 /\ exc = "RuntimeError: ffmpeg conversion failed")
     /\ (saved = "ok" /\ returncode = 0) => (exc = "none" /\ dest = "ogg")

\* C5 witness: the encoder failed, the temporary file was deleted and the
\* RuntimeError left generate.
C5_Witness ==
  /\ pc = "exit"
  /\ output_format = "ogg"
  /\ returncode = 1
  /\ tmp_wav = "deleted"
  /\ exc = "RuntimeError: ffmpeg conversion failed"

\* The kernel device selection chooses on this host.
ChosenKernel == IF cuda THEN "flash_attention_2" ELSE "sdpa"

\* C6: at most two model constructions; the first uses the kernel of device
\* selection (flash_attention_2 only on cuda); a second happens only after a
\* failed first that used flash_attention_2, and uses sdpa with the first's
\* device and dtype; a failed first with sdpa, and a failed second, leave
\* generate as the exception.
C6_TwoAttempts ==
  /\ Len(attempts) <= 2
  /\ Len(attempts) >= 1 =>
       /\ attempts[1].attn_implementation = ChosenKernel
       /\ (attempts[1].attn_implementation = "flash_attention_2") = (selected.device = "cuda")
       /\ (~attempts[1].ok /\ attempts[1].attn_implementation = "sdpa") =>
            (Len(attempts) = 1 /\ pc = "exit" /\ exc = "ModelLoadError" /\ status = 1)
  /\ Len(attempts) = 2 =>
       /\ ~attempts[1].ok
       /\ attempts[1].attn_implementation = "flash_attention_2"
       /\ attempts[2].attn_implementation = "sdpa"
       /\ attempts[2].device_map = attempts[1].device_map
       /\ attempts[2].torch_dtype = attempts[1].torch_dtype
       /\ ~attempts[2].ok => (pc = "exit" /\ exc = "ModelLoadError" /\ status = 1)

\* C6 witness: the fused kernel failed on cuda and the sdpa retry loaded the
\* model in bfloat16.
C6_Witness ==
  /\ Len(attempts) = 2
  /\ attempts[2].ok
  /\ attempts[2].torch_dtype = "bfloat16"
  /\ pc = "run"

\* The model returned no audio.
NoAudio ==
  /\ outputs.generated
  /\ outputs.speech_outputs = << >> \/ outputs.speech_outputs[1] = "None"

\* C7: when the model returns no audio, generate raises RuntimeError before
\* the output directory is made, before a temporary file is made and before
\* anything is written at output_path, and no JSON result is printed.
C7_NoAudioLeavesNothing ==
  (NoAudio /\ pc # "check") =>
     /\ pc = "exit"
     /\ exc = "RuntimeError: No audio output generated"
     /\ status = 1
     /\ ~outdir_made
     /\ tmp_wav = "none"
     /\ DestUntouched
     /\ stdout = << >>

\* C7 witness: speech_outputs[0] was None, over an existing file at
\* output_path, and the run has ended.
C7_Witness ==
  /\ pc = "exit"
  /\ outputs.generated
  /\ outputs.speech_outputs = << "None" >>
  /\ dest = "existing"
  /\ exc = "RuntimeError: No audio output generated"

====
